---------------------------- MODULE Spec2Model ----------------------------
(***************************************************************************)
(* Model of the pool-game physics core: Ball (src/unnamed/part_000,        *)
(* src/CompSci20_PoolGame/Ball.h) and namespace physics                    *)
(* (src/CompSci20_PoolGame/physics.cpp).                                   *)
(*                                                                         *)
(* A C++ double is modelled as an exact rational <<num, den>> in lowest    *)
(* terms with den > 0, or as NaN (<<0, 0>>), the value the code's 0.0/0.0  *)
(* produces.  Rounding of doubles is not modelled.                         *)
(***************************************************************************)
EXTENDS Integers, Sequences, FiniteSets, TLC

VARIABLES
    gameBalls,          \* std::vector<Ball>: sequence of Ball records
    gamePlayers,        \* std::vector<Player>: sequence of target ball types
    turn,               \* TurnInformation
    collisionFriction,  \* consts::collisionFriction (restitution), fixed per run
    pc,                 \* control position inside / outside stepPhysics
    ballIdx,            \* index of `ball` in the outer range-for of stepPhysics
    stepsNeeded,        \* local of stepPhysics
    stepSizeX,          \* local of stepPhysics
    stepSizeY,          \* local of stepPhysics
    hasCollided,        \* local of stepPhysics
    turnsLeft,          \* shots the caller may still take
    loopStart,          \* history: the ball as it was when its step loop began
    increments,         \* history: increments made in the current step loop
    collidedAt,         \* history: increment at which hasCollided became true
    pocketedBefore,     \* history: the balls that were invisible when the tick began
    call                \* history of the last direct call: [fn, a, b, pre, result]

vars == <<gameBalls, gamePlayers, turn, collisionFriction, pc, ballIdx,
          stepsNeeded, stepSizeX, stepSizeY, hasCollided, turnsLeft,
          loopStart, increments, collidedAt, pocketedBefore, call>>

-----------------------------------------------------------------------------
(* double arithmetic *)

NaN == <<0, 0>>

IsNaN(a) == a[2] = 0

RECURSIVE GCD(_, _)
GCD(a, b) == IF b = 0 THEN a ELSE GCD(b, a % b)

IAbs(n) == IF n < 0 THEN -n ELSE n

Norm(n, d) ==
    IF d = 0 THEN NaN
    ELSE LET g == GCD(IAbs(n), IAbs(d))
             s == IF d < 0 THEN -1 ELSE 1
         IN  <<(s * n) \div g, (s * d) \div g>>

R(n) == <<n, 1>>

Frac(n, d) == Norm(n, d)

Zero == R(0)

\* sums and comparisons go through the least common denominator, products
\* cancel before multiplying, so that intermediate values stay small
RAdd(a, b) == IF IsNaN(a) \/ IsNaN(b) THEN NaN
              ELSE LET g == GCD(a[2], b[2])
                   IN  Norm(a[1] * (b[2] \div g) + b[1] * (a[2] \div g),
                            a[2] * (b[2] \div g))

RNeg(a) == IF IsNaN(a) THEN NaN ELSE <<-a[1], a[2]>>

RSub(a, b) == RAdd(a, RNeg(b))

RMul(a, b) == IF IsNaN(a) \/ IsNaN(b) THEN NaN
              ELSE LET g1 == GCD(IAbs(a[1]), b[2])
                       g2 == GCD(IAbs(b[1]), a[2])
                   IN  Norm((a[1] \div g1) * (b[1] \div g2),
                            (a[2] \div g2) * (b[2] \div g1))

\* x / 0.0 with x # 0 is an infinity in C++; every division of the modelled
\* code whose divisor can be zero has a zero dividend then, so only 0.0/0.0
\* (NaN) arises.
RDiv(a, b) == IF IsNaN(a) \/ IsNaN(b) \/ b[1] = 0 THEN NaN
              ELSE RMul(a, Norm(b[2], b[1]))

RAbs(a) == IF IsNaN(a) THEN NaN ELSE <<IAbs(a[1]), a[2]>>

\* comparisons: every ordered comparison with NaN is false, != is true
RLt(a, b) == ~IsNaN(a) /\ ~IsNaN(b) /\ RSub(a, b)[1] < 0

RLe(a, b) == ~IsNaN(a) /\ ~IsNaN(b) /\ RSub(a, b)[1] <= 0

RGt(a, b) == RLt(b, a)

RNe(a, b) == IsNaN(a) \/ IsNaN(b) \/ a # b

\* std::ceil
RCeil(a) == IF IsNaN(a) THEN NaN ELSE R(-((-a[1]) \div a[2]))

IsSquare(n) == \E s \in 0..n : s * s = n

ISqrt(n) == CHOOSE s \in 0..n : s * s = n

\* std::sqrt on the values whose root is rational
RSqrt(a) == IF IsNaN(a) THEN NaN ELSE <<ISqrt(a[1]), ISqrt(a[2])>>

HasRationalRoot(a) == ~IsNaN(a) /\ a[1] >= 0 /\ IsSquare(a[1]) /\ IsSquare(a[2])

-----------------------------------------------------------------------------
(* utilities *)

calculateHypotenuse(a, b) ==
    IF IsNaN(a) \/ IsNaN(b) THEN NaN
    ELSE IF b = Zero THEN RAbs(a)
    ELSE IF a = Zero THEN RAbs(b)
    ELSE RSqrt(RAdd(RMul(a, a), RMul(b, b)))

dotProduct(x1, x2, y1, y2) == RAdd(RMul(x1, x2), RMul(y1, y2))

-----------------------------------------------------------------------------
(* Ball *)

BallTypes == {"cue", "solid", "striped", "eight"}

Ball(x, y, vx, vy, radius, mass, type, number) ==
    [x |-> x, y |-> y, vx |-> vx, vy |-> vy, radius |-> radius, mass |-> mass,
     visible |-> TRUE, ballType |-> type, ballNumber |-> number]

addPosition(b, xPos, yPos) ==
    [b EXCEPT !.x = RAdd(b.x, xPos), !.y = RAdd(b.y, yPos)]

subPosition(b, xPos, yPos) ==
    [b EXCEPT !.x = RSub(b.x, xPos), !.y = RSub(b.y, yPos)]

setVelocity(b, xVel, yVel) == [b EXCEPT !.vx = xVel, !.vy = yVel]

addVelocity(b, xVel, yVel) ==
    [b EXCEPT !.vx = RAdd(b.vx, xVel), !.vy = RAdd(b.vy, yVel)]

subVelocity(b, xVel, yVel) ==
    [b EXCEPT !.vx = RSub(b.vx, xVel), !.vy = RSub(b.vy, yVel)]

\* The comparison is strict: touching balls do not overlap.
isOverlappingBallStrict(bs, i, j) ==
    IF j = i THEN FALSE
    ELSE LET radiusLength == RAdd(bs[i].radius, bs[j].radius)
             deltaX == RSub(bs[i].x, bs[j].x)
             deltaY == RSub(bs[i].y, bs[j].y)
         IN  RLt(RAdd(RMul(deltaX, deltaX), RMul(deltaY, deltaY)),
                 RMul(radiusLength, radiusLength))

\* bs[i] is *this, bs[j] is otherBall; the pointer comparison is the
\* comparison of the two places in the collection.
isOverlappingBall(bs, i, j) ==
    IF j = i THEN FALSE
    ELSE LET radiusLength == RAdd(bs[i].radius, bs[j].radius)
             deltaX == RSub(bs[i].x, bs[j].x)
             deltaY == RSub(bs[i].y, bs[j].y)
         IN  RLe(RAdd(RMul(deltaX, deltaX), RMul(deltaY, deltaY)),
                 RMul(radiusLength, radiusLength))

isVisible(b) == b.visible

isMoving(b) == RNe(b.vx, Zero) \/ RNe(b.vy, Zero)

-----------------------------------------------------------------------------
(* physics *)

\* Both balls are moved by the same vector: ball1 is added to, not subtracted from.
resolveCircleCollisionPositionSameWay(bs, i, j) ==
    LET ball1 == bs[i]
        ball2 == bs[j]
        ballDistance == calculateHypotenuse(RSub(ball1.x, ball2.x), RSub(ball1.y, ball2.y))
        ballOverlap == RDiv(RSub(RSub(ballDistance, ball1.radius), ball2.radius), R(2))
        moveDistanceX == RDiv(RMul(ballOverlap, RSub(ball1.x, ball2.x)), ballDistance)
        moveDistanceY == RDiv(RMul(ballOverlap, RSub(ball1.y, ball2.y)), ballDistance)
    IN  [bs EXCEPT ![i] = addPosition(ball1, moveDistanceX, moveDistanceY),
                   ![j] = addPosition(ball2, moveDistanceX, moveDistanceY)]

resolveCircleCollisionPosition(bs, i, j) ==
    LET ball1 == bs[i]
        ball2 == bs[j]
        ballDistance == calculateHypotenuse(RSub(ball1.x, ball2.x), RSub(ball1.y, ball2.y))
        ballOverlap == RDiv(RSub(RSub(ballDistance, ball1.radius), ball2.radius), R(2))
        moveDistanceX == RDiv(RMul(ballOverlap, RSub(ball1.x, ball2.x)), ballDistance)
        moveDistanceY == RDiv(RMul(ballOverlap, RSub(ball1.y, ball2.y)), ballDistance)
    IN  [bs EXCEPT ![i] = subPosition(ball1, moveDistanceX, moveDistanceY),
                   ![j] = addPosition(ball2, moveDistanceX, moveDistanceY)]

\* Each ball's change is scaled by its own mass instead of the other ball's.
resolveCircleCollisionVelocityOwnMass(bs, i, j, e) ==
    LET ball1 == bs[i]
        ball2 == bs[j]
        ballDistance == calculateHypotenuse(RSub(ball1.x, ball2.x), RSub(ball1.y, ball2.y))
        normalX == RDiv(RSub(ball2.x, ball1.x), ballDistance)
        normalY == RDiv(RSub(ball2.y, ball1.y), ballDistance)
        deltaVelocityX == RSub(ball1.vx, ball2.vx)
        deltaVelocityY == RSub(ball1.vy, ball2.vy)
        p == RDiv(RMul(R(2), dotProduct(normalX, deltaVelocityX, normalY, deltaVelocityY)),
                  RAdd(ball1.mass, ball2.mass))
        newVelocityX == RMul(RMul(p, normalX), e)
        newVelocityY == RMul(RMul(p, normalY), e)
    IN  [bs EXCEPT ![i] = subVelocity(ball1, RMul(newVelocityX, ball1.mass),
                                             RMul(newVelocityY, ball1.mass)),
                   ![j] = addVelocity(ball2, RMul(newVelocityX, ball2.mass),
                                             RMul(newVelocityY, ball2.mass))]

\* e is consts::collisionFriction
resolveCircleCollisionVelocity(bs, i, j, e) ==
    LET ball1 == bs[i]
        ball2 == bs[j]
        ballDistance == calculateHypotenuse(RSub(ball1.x, ball2.x), RSub(ball1.y, ball2.y))
        normalX == RDiv(RSub(ball2.x, ball1.x), ballDistance)
        normalY == RDiv(RSub(ball2.y, ball1.y), ballDistance)
        deltaVelocityX == RSub(ball1.vx, ball2.vx)
        deltaVelocityY == RSub(ball1.vy, ball2.vy)
        p == RDiv(RMul(R(2), dotProduct(normalX, deltaVelocityX, normalY, deltaVelocityY)),
                  RAdd(ball1.mass, ball2.mass))
        newVelocityX == RMul(RMul(p, normalX), e)
        newVelocityY == RMul(RMul(p, normalY), e)
    IN  [bs EXCEPT ![i] = subVelocity(ball1, RMul(newVelocityX, ball2.mass),
                                             RMul(newVelocityY, ball2.mass)),
                   ![j] = addVelocity(ball2, RMul(newVelocityX, ball1.mass),
                                             RMul(newVelocityY, ball1.mass))]

Rectangle(x1, y1, x2, y2) == [xPos1 |-> x1, yPos1 |-> y1, xPos2 |-> x2, yPos2 |-> y2]

\* The far-side branches add the penetration instead of subtracting it.
resolveCircleBoundaryCollisionFarSign(ball, boundary, e) ==
    LET lowX  == RLt(RSub(ball.x, ball.radius), boundary.xPos1)
        highX == ~lowX /\ RGt(RAdd(ball.x, ball.radius), boundary.xPos2)
        xPositionAdjustment ==
            IF lowX THEN RSub(boundary.xPos1, RSub(ball.x, ball.radius))
            ELSE IF highX THEN RSub(RAdd(ball.x, ball.radius), boundary.xPos2)
            ELSE Zero
        b1 == IF lowX \/ highX
              THEN setVelocity(ball, RMul(RNeg(ball.vx), e), ball.vy) ELSE ball
        lowY  == RLt(RSub(b1.y, b1.radius), boundary.yPos1)
        highY == ~lowY /\ RGt(RAdd(b1.y, b1.radius), boundary.yPos2)
        yPositionAdjustment ==
            IF lowY THEN RSub(boundary.yPos1, RSub(b1.y, b1.radius))
            ELSE IF highY THEN RSub(RAdd(b1.y, b1.radius), boundary.yPos2)
            ELSE Zero
        b2 == IF lowY \/ highY
              THEN setVelocity(b1, b1.vx, RMul(RNeg(b1.vy), e)) ELSE b1
    IN  IF RNe(xPositionAdjustment, Zero) \/ RNe(yPositionAdjustment, Zero)
        THEN addPosition(b2, xPositionAdjustment, yPositionAdjustment)
        ELSE b2

resolveCircleBoundaryCollision(ball, boundary, e) ==
    LET lowX  == RLt(RSub(ball.x, ball.radius), boundary.xPos1)
        highX == ~lowX /\ RGt(RAdd(ball.x, ball.radius), boundary.xPos2)
        xPositionAdjustment ==
            IF lowX THEN RSub(boundary.xPos1, RSub(ball.x, ball.radius))
            ELSE IF highX THEN RNeg(RSub(RAdd(ball.x, ball.radius), boundary.xPos2))
            ELSE Zero
        b1 == IF lowX \/ highX
              THEN setVelocity(ball, RMul(RNeg(ball.vx), e), ball.vy) ELSE ball
        lowY  == RLt(RSub(b1.y, b1.radius), boundary.yPos1)
        highY == ~lowY /\ RGt(RAdd(b1.y, b1.radius), boundary.yPos2)
        yPositionAdjustment ==
            IF lowY THEN RSub(boundary.yPos1, RSub(b1.y, b1.radius))
            ELSE IF highY THEN RNeg(RSub(RAdd(b1.y, b1.radius), boundary.yPos2))
            ELSE Zero
        b2 == IF lowY \/ highY
              THEN setVelocity(b1, b1.vx, RMul(RNeg(b1.vy), e)) ELSE b1
    IN  IF RNe(xPositionAdjustment, Zero) \/ RNe(yPositionAdjustment, Zero)
        THEN addPosition(b2, xPositionAdjustment, yPositionAdjustment)
        ELSE b2

areBallsMoving(bs) ==
    \E k \in 1..Len(bs) : isVisible(bs[k]) /\ isMoving(bs[k])

-----------------------------------------------------------------------------
(* Direct calls of the Ball and physics functions on drawn arguments *)

MaxCoord == 4

CallRadii == {1, 2, 3}

CallMasses == {<<1, 1>>, <<1, 2>>, <<2, 1>>}

CallRestitutions == {Frac(1, 2), R(1)}

\* a rectangle that holds the largest drawn ball
CallBoundary == Rectangle(R(-2), R(-2), R(4), R(4))

NoCall == [fn |-> "none", a |-> 0, b |-> 0, pre |-> <<>>, result |-> FALSE]

InitCalls ==
    /\ \E ax \in 0..MaxCoord, ay \in 0..MaxCoord, bp \in {<<0, 0>>, <<2, 2>>},
          ar \in CallRadii, br \in {1, 3}, m \in CallMasses,
          avx \in {-1, 2}, avy \in {0, 1}, bv \in {<<0, 0>>, <<1, -1>>} :
            gameBalls = << Ball(R(ax), R(ay), R(avx), R(avy), R(ar), R(m[1]), "cue", 0),
                           Ball(R(bp[1]), R(bp[2]), R(bv[1]), R(bv[2]), R(br), R(m[2]), "solid", 1) >>
    /\ collisionFriction \in CallRestitutions
    /\ gamePlayers = <<"undetermined", "undetermined">>
    /\ turn = [firstHitBallType |-> "undetermined", pocketedBalls |-> <<>>, turnPlayerIndex |-> 1]
    /\ pc = "call"
    /\ ballIdx = 0
    /\ stepsNeeded = Zero
    /\ stepSizeX = Zero
    /\ stepSizeY = Zero
    /\ hasCollided = FALSE
    /\ turnsLeft = 0
    /\ loopStart = <<>>
    /\ increments = 0
    /\ collidedAt = 0
    /\ pocketedBefore = {}
    /\ call = NoCall

CentreDistanceSq(bs, i, j) ==
    LET deltaX == RSub(bs[i].x, bs[j].x)
        deltaY == RSub(bs[i].y, bs[j].y)
    IN  RAdd(RMul(deltaX, deltaX), RMul(deltaY, deltaY))

UnchangedByCalls == UNCHANGED <<gamePlayers, turn, collisionFriction, ballIdx, stepsNeeded,
                                stepSizeX, stepSizeY, hasCollided, turnsLeft,
                                loopStart, increments, collidedAt, pocketedBefore>>

CallIsOverlappingBall ==
    /\ pc = "call"
    /\ \E i \in 1..2, j \in 1..2 :
          call' = [fn |-> "isOverlappingBall", a |-> i, b |-> j, pre |-> gameBalls,
                   result |-> isOverlappingBall(gameBalls, i, j)]
    /\ pc' = "called"
    /\ UNCHANGED gameBalls
    /\ UnchangedByCalls

\* called, as in resolveCircleCollisions and stepPhysics, on a pair that overlaps
CallResolveCircleCollisionPosition ==
    /\ pc = "call"
    /\ \E i \in 1..2, j \in 1..2 :
          /\ isOverlappingBall(gameBalls, i, j)
          /\ HasRationalRoot(CentreDistanceSq(gameBalls, i, j))
          /\ gameBalls' = resolveCircleCollisionPosition(gameBalls, i, j)
          /\ call' = [fn |-> "position", a |-> i, b |-> j, pre |-> gameBalls, result |-> TRUE]
    /\ pc' = "called"
    /\ UnchangedByCalls

CallResolveCircleCollisionVelocity ==
    /\ pc = "call"
    /\ \E i \in 1..2, j \in 1..2 :
          /\ i # j
          /\ HasRationalRoot(CentreDistanceSq(gameBalls, i, j))
          /\ gameBalls' = resolveCircleCollisionVelocity(gameBalls, i, j, collisionFriction)
          /\ call' = [fn |-> "velocity", a |-> i, b |-> j, pre |-> gameBalls, result |-> TRUE]
    /\ pc' = "called"
    /\ UnchangedByCalls

CallResolveCircleBoundaryCollision ==
    /\ pc = "call"
    /\ gameBalls' = [gameBalls EXCEPT ![1] =
                        resolveCircleBoundaryCollision(gameBalls[1], CallBoundary, collisionFriction)]
    /\ call' = [fn |-> "boundary", a |-> 1, b |-> 1, pre |-> gameBalls, result |-> TRUE]
    /\ pc' = "called"
    /\ UnchangedByCalls

NextCalls ==
    \/ CallIsOverlappingBall
    \/ CallResolveCircleCollisionPosition
    \/ CallResolveCircleCollisionVelocity
    \/ CallResolveCircleBoundaryCollision

SpecCalls == InitCalls /\ [][NextCalls]_vars

-----------------------------------------------------------------------------
(* Claims about the directly called functions, checked under SpecCalls *)

PreA == call.pre[call.a]
PreB == call.pre[call.b]
PostA == gameBalls[call.a]
PostB == gameBalls[call.b]

RSign(a) == IF a[1] > 0 THEN 1 ELSE IF a[1] < 0 THEN -1 ELSE 0

\* C1: isOverlappingBall(other) is true exactly when other is a different
\* ball and the squared centre distance is at most the squared sum of the
\* radii (touching included); a ball never overlaps itself.  The arguments
\* drawn are integers, so the right-hand side is plain integer arithmetic.
C1_OverlapIffWithinRadii ==
    call.fn = "isOverlappingBall" =>
        LET dx == PreA.x[1] - PreB.x[1]
            dy == PreA.y[1] - PreB.y[1]
            rr == PreA.radius[1] + PreB.radius[1]
        IN  call.result <=> (call.a # call.b /\ dx * dx + dy * dy <= rr * rr)

\* two different balls exactly touching were compared, and reported overlapping
C1_Witness ==
    /\ call.fn = "isOverlappingBall"
    /\ call.a # call.b
    /\ CentreDistanceSq(call.pre, call.a, call.b)
          = RMul(RAdd(PreA.radius, PreB.radius), RAdd(PreA.radius, PreB.radius))
    /\ call.result

\* C2: after resolveCircleCollisionPosition on two distinct overlapping balls
\* whose centres differ, the centre distance is at least ra + rb and the
\* displacement of a is the negation of the displacement of b.
C2_SeparatedAntisymmetric ==
    (/\ call.fn = "position"
     /\ CentreDistanceSq(call.pre, call.a, call.b) # Zero) =>
        /\ RLe(RMul(RAdd(PreA.radius, PreB.radius), RAdd(PreA.radius, PreB.radius)),
               CentreDistanceSq(gameBalls, call.a, call.b))
        /\ RSub(PostA.x, PreA.x) = RNeg(RSub(PostB.x, PreB.x))
        /\ RSub(PostA.y, PreA.y) = RNeg(RSub(PostB.y, PreB.y))

\* a pair that penetrated along a diagonal was separated and both balls moved
C2_Witness ==
    /\ call.fn = "position"
    /\ PreA.x # PreB.x
    /\ PreA.y # PreB.y
    /\ RLt(CentreDistanceSq(call.pre, call.a, call.b),
           RMul(RAdd(PreA.radius, PreB.radius), RAdd(PreA.radius, PreB.radius)))
    /\ PostA.x # PreA.x
    /\ PostB.y # PreB.y

\* momentum of the pair bs[i], bs[j] along the centre line of the balls in cs
\* (d times the momentum along the unit normal)
MomentumAlongCentres(bs, cs, i, j) ==
    LET dX == RSub(cs[j].x, cs[i].x)
        dY == RSub(cs[j].y, cs[i].y)
    IN  RAdd(RMul(bs[i].mass, dotProduct(dX, bs[i].vx, dY, bs[i].vy)),
             RMul(bs[j].mass, dotProduct(dX, bs[j].vx, dY, bs[j].vy)))

\* C3: with restitution 1.0 resolveCircleCollisionVelocity conserves the
\* momentum along the collision normal; each ball's change of velocity is
\* parallel to the normal, and the two changes are in the ratio of the other
\* ball's mass (ma * dva = -(mb * dvb)).
C3_MomentumAlongNormal ==
    (/\ call.fn = "velocity"
     /\ collisionFriction = R(1)
     /\ CentreDistanceSq(call.pre, call.a, call.b) # Zero) =>
        LET dX == RSub(PreB.x, PreA.x)
            dY == RSub(PreB.y, PreA.y)
            dvaX == RSub(PostA.vx, PreA.vx)
            dvaY == RSub(PostA.vy, PreA.vy)
            dvbX == RSub(PostB.vx, PreB.vx)
            dvbY == RSub(PostB.vy, PreB.vy)
        IN  /\ MomentumAlongCentres(gameBalls, call.pre, call.a, call.b)
                 = MomentumAlongCentres(call.pre, call.pre, call.a, call.b)
            /\ RSub(RMul(dvaX, dY), RMul(dvaY, dX)) = Zero
            /\ RSub(RMul(dvbX, dY), RMul(dvbY, dX)) = Zero
            /\ RMul(PreA.mass, dvaX) = RNeg(RMul(PreB.mass, dvbX))
            /\ RMul(PreA.mass, dvaY) = RNeg(RMul(PreB.mass, dvbY))

\* an elastic collision of balls of different mass along a diagonal changed
\* both velocities
C3_Witness ==
    /\ call.fn = "velocity"
    /\ collisionFriction = R(1)
    /\ PreA.mass # PreB.mass
    /\ PreA.x # PreB.x
    /\ PreA.y # PreB.y
    /\ PostA.vx # PreA.vx
    /\ PostB.vy # PreB.vy

BouncedX(b, boundary) ==
    \/ RLt(RSub(b.x, b.radius), boundary.xPos1)
    \/ RGt(RAdd(b.x, b.radius), boundary.xPos2)

BouncedY(b, boundary) ==
    \/ RLt(RSub(b.y, b.radius), boundary.yPos1)
    \/ RGt(RAdd(b.y, b.radius), boundary.yPos2)

WithinX(b, boundary) ==
    /\ RLe(boundary.xPos1, RSub(b.x, b.radius))
    /\ RLe(RAdd(b.x, b.radius), boundary.xPos2)

WithinY(b, boundary) ==
    /\ RLe(boundary.yPos1, RSub(b.y, b.radius))
    /\ RLe(RAdd(b.y, b.radius), boundary.yPos2)

\* C4: after resolveCircleBoundaryCollision the ball's edges lie within the
\* rectangle on both axes; on an axis that bounced the velocity's sign is
\* flipped, and an axis that did not bounce keeps its position and velocity.
C4_BoundaryWithinAndFlipped ==
    call.fn = "boundary" =>
        /\ WithinX(PostA, CallBoundary)
        /\ WithinY(PostA, CallBoundary)
        /\ IF BouncedX(PreA, CallBoundary)
           THEN RSign(PostA.vx) = -RSign(PreA.vx)
           ELSE PostA.x = PreA.x /\ PostA.vx = PreA.vx
        /\ IF BouncedY(PreA, CallBoundary)
           THEN RSign(PostA.vy) = -RSign(PreA.vy)
           ELSE PostA.y = PreA.y /\ PostA.vy = PreA.vy

\* a ball past the far x edge and inside on y: x bounced, y did not
C4_Witness ==
    /\ call.fn = "boundary"
    /\ RGt(RAdd(PreA.x, PreA.radius), CallBoundary.xPos2)
    /\ ~BouncedY(PreA, CallBoundary)
    /\ PreA.vx # Zero
    /\ PreA.vy # Zero
    /\ PostA.x # PreA.x

-----------------------------------------------------------------------------
(* constants.h: the configuration the physics reads *)

playSurface == Rectangle(R(0), R(0), R(12), R(4))

pocketRegion == Rectangle(R(10), R(0), R(12), R(4))

rollingFriction == Frac(1, 2)

stoppingVelocity == R(1)

isInPocket(b) ==
    /\ RLe(pocketRegion.xPos1, b.x) /\ RLe(b.x, pocketRegion.xPos2)
    /\ RLe(pocketRegion.yPos1, b.y) /\ RLe(b.y, pocketRegion.yPos2)

applyFriction(b, friction, stopVelocity) ==
    IF RLt(calculateHypotenuse(b.vx, b.vy), stopVelocity)
    THEN setVelocity(b, Zero, Zero)
    ELSE setVelocity(b, RSub(b.vx, RMul(b.vx, friction)), RSub(b.vy, RMul(b.vy, friction)))

-----------------------------------------------------------------------------
(* physics::stepPhysics, one action per step of its loops *)

NumBalls == Len(gameBalls)

\* A run is followed while every coordinate and velocity is a multiple of
\* 2^-MaxFractionBits when a tick begins (the model's integers are 32 bits wide).
MaxFractionBits == 4

Representable(bs) ==
    \A k \in 1..Len(bs) :
        /\ bs[k].x[2] <= 2 ^ MaxFractionBits
        /\ bs[k].y[2] <= 2 ^ MaxFractionBits
        /\ bs[k].vx[2] <= 2 ^ MaxFractionBits
        /\ bs[k].vy[2] <= 2 ^ MaxFractionBits

\* std::ceil(velocitySum / ball.getRadius())
StepsFor(ball) ==
    LET velocitySum == RAdd(RAbs(ball.vx), RAbs(ball.vy))
    IN  RCeil(RDiv(velocitySum, ball.radius))

\* The loop goes on after a collision.
WhileCondIgnoringCollision == RGt(stepsNeeded, Zero)

WhileCond == RGt(stepsNeeded, Zero) /\ ~hasCollided

\* The type is written on every collision.
RecordFirstHitAlways(t, bs, i, j) ==
    [t EXCEPT !.firstHitBallType =
        IF bs[i].ballNumber = 0 THEN bs[j].ballType ELSE bs[i].ballType]

RecordFirstHit(t, bs, i, j) ==
    IF t.firstHitBallType = "undetermined"
    THEN [t EXCEPT !.firstHitBallType =
            IF bs[i].ballNumber = 0 THEN bs[j].ballType ELSE bs[i].ballType]
    ELSE t

\* the range-for over checkTarget, from target j on; st = [balls, turn, hit]
RECURSIVE ScanTargets(_, _, _, _)
ScanTargets(st, i, j, e) ==
    IF j > Len(st.balls) THEN st
    ELSE IF isOverlappingBall(st.balls, i, j)
         THEN LET moved    == resolveCircleCollisionPosition(st.balls, i, j)
                  resolved == resolveCircleCollisionVelocity(moved, i, j, e)
              IN  ScanTargets([balls |-> resolved,
                               turn  |-> RecordFirstHit(st.turn, resolved, i, j),
                               hit   |-> TRUE], i, j + 1, e)
         ELSE ScanTargets(st, i, j + 1, e)

Complement(type) == IF type = "solid" THEN "striped" ELSE "solid"

\* The opponent is given the pocketed ball's type too.
AssignTargetsSameType(players, playerIndex, type) ==
    IF players[playerIndex] = "undetermined" /\ type \in {"solid", "striped"}
    THEN [players EXCEPT ![playerIndex] = type,
                         ![(playerIndex % Len(players)) + 1] = type]
    ELSE players

\* playerIndex counts from 1 here; (playerIndex + 1) % size of the code is
\* (playerIndex % size) + 1
AssignTargets(players, playerIndex, type) ==
    IF players[playerIndex] = "undetermined"
    THEN IF type \in {"solid", "striped"}
         THEN [players EXCEPT ![playerIndex] = type,
                              ![(playerIndex % Len(players)) + 1] = Complement(type)]
         ELSE players
    ELSE players

\* what the body does to `ball` after the while loop
AfterLoopBall(ball) ==
    LET pocketed == IF isInPocket(ball) THEN [ball EXCEPT !.visible = FALSE] ELSE ball
        slowed   == applyFriction(pocketed, rollingFriction, stoppingVelocity)
    IN  resolveCircleBoundaryCollision(slowed, playSurface, collisionFriction)

UnchangedLocals == UNCHANGED <<stepsNeeded, stepSizeX, stepSizeY, hasCollided>>

UnchangedHistory == UNCHANGED <<loopStart, increments, collidedAt, pocketedBefore, call>>

\* the caller's frame calls stepPhysics
StepPhysics ==
    /\ pc = "idle"
    /\ Representable(gameBalls)
    /\ pc' = "for"
    /\ ballIdx' = 1
    /\ pocketedBefore' = {k \in 1..NumBalls : ~isVisible(gameBalls[k])}
    /\ UNCHANGED <<gameBalls, gamePlayers, turn, collisionFriction, turnsLeft>>
    /\ UnchangedLocals
    /\ UNCHANGED <<loopStart, increments, collidedAt, call>>

\* if (!ball.isVisible()) continue;
SkipInvisible ==
    /\ pc = "for"
    /\ ballIdx <= NumBalls
    /\ ~isVisible(gameBalls[ballIdx])
    /\ ballIdx' = ballIdx + 1
    /\ UNCHANGED <<gameBalls, gamePlayers, turn, collisionFriction, turnsLeft, pc>>
    /\ UnchangedLocals
    /\ UnchangedHistory

\* stepsNeeded > 0.0 is false: the whole body is skipped
SkipStill ==
    /\ pc = "for"
    /\ ballIdx <= NumBalls
    /\ isVisible(gameBalls[ballIdx])
    /\ ~RGt(StepsFor(gameBalls[ballIdx]), Zero)
    /\ ballIdx' = ballIdx + 1
    /\ UNCHANGED <<gameBalls, gamePlayers, turn, collisionFriction, turnsLeft, pc>>
    /\ UnchangedLocals
    /\ UnchangedHistory

BeginSteps ==
    /\ pc = "for"
    /\ ballIdx <= NumBalls
    /\ isVisible(gameBalls[ballIdx])
    /\ RGt(StepsFor(gameBalls[ballIdx]), Zero)
    /\ stepsNeeded' = StepsFor(gameBalls[ballIdx])
    /\ stepSizeX' = RDiv(gameBalls[ballIdx].vx, StepsFor(gameBalls[ballIdx]))
    /\ stepSizeY' = RDiv(gameBalls[ballIdx].vy, StepsFor(gameBalls[ballIdx]))
    /\ hasCollided' = FALSE
    /\ pc' = "while"
    /\ loopStart' = gameBalls[ballIdx]
    /\ increments' = 0
    /\ collidedAt' = 0
    /\ UNCHANGED <<gameBalls, gamePlayers, turn, collisionFriction, turnsLeft,
                   ballIdx, pocketedBefore, call>>

\* one iteration of the while loop: move, scan every ball, --stepsNeeded
SubStep ==
    /\ pc = "while"
    /\ WhileCond
    /\ LET moved == [gameBalls EXCEPT ![ballIdx] = addPosition(@, stepSizeX, stepSizeY)]
           st == ScanTargets([balls |-> moved, turn |-> turn, hit |-> hasCollided],
                             ballIdx, 1, collisionFriction)
       IN  /\ gameBalls' = st.balls
           /\ turn' = st.turn
           /\ hasCollided' = st.hit
           /\ collidedAt' = IF st.hit /\ ~hasCollided THEN increments + 1 ELSE collidedAt
    /\ stepsNeeded' = RSub(stepsNeeded, R(1))
    /\ increments' = increments + 1
    /\ UNCHANGED <<gamePlayers, collisionFriction, turnsLeft, pc, ballIdx,
                   stepSizeX, stepSizeY, loopStart, pocketedBefore, call>>

\* after the loop: pocketing, friction, boundary; then the next ball
AfterLoop ==
    /\ pc = "while"
    /\ ~WhileCond
    /\ gameBalls' = [gameBalls EXCEPT ![ballIdx] = AfterLoopBall(@)]
    /\ IF isInPocket(gameBalls[ballIdx])
       THEN /\ turn' = [turn EXCEPT !.pocketedBalls = Append(@, ballIdx)]
            /\ gamePlayers' = AssignTargets(gamePlayers, turn.turnPlayerIndex,
                                            gameBalls[ballIdx].ballType)
       ELSE UNCHANGED <<turn, gamePlayers>>
    /\ pc' = "for"
    /\ ballIdx' = ballIdx + 1
    /\ UNCHANGED <<collisionFriction, turnsLeft>>
    /\ UnchangedLocals
    /\ UnchangedHistory

\* the range-for is exhausted: stepPhysics returns
Return ==
    /\ pc = "for"
    /\ ballIdx > NumBalls
    /\ pc' = "idle"
    /\ ballIdx' = 0
    /\ UNCHANGED <<gameBalls, gamePlayers, turn, collisionFriction, turnsLeft>>
    /\ UnchangedLocals
    /\ UnchangedHistory

-----------------------------------------------------------------------------
(* The game around stepPhysics: the rack, and the caller's shots *)

MaxTurns == 1

MaxSpeed == 3

Racks == { <<"cue", "solid", "striped">>,
           <<"solid", "cue", "eight">>,
           <<"striped", "solid", "cue">> }

NumberOf(type) == CASE type = "cue" -> 0
                    [] type = "solid" -> 1
                    [] type = "eight" -> 8
                    [] type = "striped" -> 9

\* x of the three centres, in half units: centres on one line, no two balls
\* touching, every ball inside the play surface and outside the pocket
Layouts == { <<4, 10, 16>>, <<6, 12, 18>>, <<7, 2, 18>> }

InitSpeeds == {-2, 0, 2}

Restitutions == {Frac(1, 2), R(1)}

Init ==
    /\ \E rack \in Racks, xs \in Layouts, vs \in [1..3 -> InitSpeeds] :
          gameBalls = [k \in 1..3 |->
                          Ball(Frac(xs[k], 2), R(2), R(vs[k]), Zero, R(1), R(1),
                               rack[k], NumberOf(rack[k]))]
    /\ collisionFriction \in Restitutions
    /\ gamePlayers = <<"undetermined", "undetermined">>
    /\ turn = [firstHitBallType |-> "undetermined", pocketedBalls |-> <<>>,
               turnPlayerIndex |-> 1]
    /\ pc = "idle"
    /\ ballIdx = 0
    /\ stepsNeeded = Zero
    /\ stepSizeX = Zero
    /\ stepSizeY = Zero
    /\ hasCollided = FALSE
    /\ turnsLeft = MaxTurns
    /\ loopStart = <<>>
    /\ increments = 0
    /\ collidedAt = 0
    /\ pocketedBefore = {}
    /\ call = NoCall

CueIndex == CHOOSE k \in 1..NumBalls : gameBalls[k].ballNumber = 0

\* the caller: once nothing moves, the next turn begins with a fresh
\* TurnInformation and the cue ball is struck
NewTurn ==
    /\ pc = "idle"
    /\ ~areBallsMoving(gameBalls)
    /\ turnsLeft > 0
    /\ isVisible(gameBalls[CueIndex])
    /\ turnsLeft' = turnsLeft - 1
    /\ \E p \in 1..Len(gamePlayers) :
          turn' = [firstHitBallType |-> "undetermined", pocketedBalls |-> <<>>,
                   turnPlayerIndex |-> p]
    /\ \E v \in {-MaxSpeed, MaxSpeed} :
          gameBalls' = [gameBalls EXCEPT ![CueIndex] = setVelocity(@, R(v), Zero)]
    /\ UNCHANGED <<gamePlayers, collisionFriction, pc, ballIdx>>
    /\ UnchangedLocals
    /\ UnchangedHistory

Tick ==
    \/ StepPhysics
    \/ SkipInvisible
    \/ SkipStill
    \/ BeginSteps
    \/ SubStep
    \/ AfterLoop
    \/ Return

Next == Tick \/ NewTurn

Spec == Init /\ [][Next]_vars

\* x of the three centres, in half units, for the runs without new input
SettleLayouts == { <<16, 8, 2>>, <<7, 2, 14>> }

\* speeds in half units
SettleSpeeds == {-8, -7, -4, 0}

InitSettle ==
    /\ \E rack \in Racks, xs \in SettleLayouts, vs \in [1..3 -> SettleSpeeds] :
          gameBalls = [k \in 1..3 |->
                          Ball(Frac(xs[k], 2), R(2), Frac(vs[k], 2), Zero, R(1), R(1),
                               rack[k], NumberOf(rack[k]))]
    /\ collisionFriction = R(1)
    /\ gamePlayers = <<"undetermined", "undetermined">>
    /\ turn = [firstHitBallType |-> "undetermined", pocketedBalls |-> <<>>,
               turnPlayerIndex |-> 1]
    /\ pc = "idle"
    /\ ballIdx = 0
    /\ stepsNeeded = Zero
    /\ stepSizeX = Zero
    /\ stepSizeY = Zero
    /\ hasCollided = FALSE
    /\ turnsLeft = 0
    /\ loopStart = <<>>
    /\ increments = 0
    /\ collidedAt = 0
    /\ pocketedBefore = {}
    /\ call = NoCall

\* no new input: the caller's loop calls stepPhysics frame after frame
SpecSettle == InitSettle /\ [][Tick]_vars

\* some visible ball gets sub-steps in a tick that begins now; a tick in
\* which none does leaves every ball as it is (only SkipInvisible and
\* SkipStill act), and so does every tick after it
TickSubSteps ==
    \E k \in 1..NumBalls :
        isVisible(gameBalls[k]) /\ RGt(StepsFor(gameBalls[k]), Zero)

\* C10: with no new input, repeated ticks reach a state where areBallsMoving
\* is false, and it stays false from then on.  Motion that is to settle is
\* never stuck: when a tick begins with areBallsMoving true, the tick
\* sub-steps some visible ball (otherwise areBallsMoving is true for ever).
C10_MotionSettles ==
    (pc = "idle" /\ areBallsMoving(gameBalls)) => TickSubSteps

-----------------------------------------------------------------------------
(* Claims about stepPhysics, checked under Spec *)

Occurrences(seq, k) == Cardinality({n \in 1..Len(seq) : seq[n] = k})

\* C5: a visible moving ball advances by velocity / stepsNeeded per
\* increment, stepsNeeded = ceil((|vx| + |vy|) / radius); it makes no
\* increment after the first one at which it overlaps another ball; with no
\* overlap it makes all stepsNeeded increments and ends at start + velocity.
C5_SubStepsUntilFirstCollision ==
    /\ [](pc = "while" =>
            LET n == StepsFor(loopStart)
                b == gameBalls[ballIdx]
            IN  /\ stepSizeX = RDiv(loopStart.vx, n)
                /\ stepSizeY = RDiv(loopStart.vy, n)
                /\ RAdd(R(increments), stepsNeeded) = n
                /\ hasCollided => increments = collidedAt
                /\ ~hasCollided =>
                      /\ b.x = RAdd(loopStart.x, RMul(R(increments), stepSizeX))
                      /\ b.y = RAdd(loopStart.y, RMul(R(increments), stepSizeY)))
    /\ [][(pc = "while" /\ pc' = "for" /\ ~hasCollided) =>
            /\ R(increments) = StepsFor(loopStart)
            /\ gameBalls[ballIdx].x = RAdd(loopStart.x, loopStart.vx)
            /\ gameBalls[ballIdx].y = RAdd(loopStart.y, loopStart.vy)]_vars

\* a ball needing several increments stopped at a collision before the last one
C5_Witness ==
    /\ pc = "while"
    /\ hasCollided
    /\ RGt(stepsNeeded, Zero)
    /\ increments >= 2

\* the first target, in scan order, that ball i overlaps
FirstOverlapped(bs, i) ==
    CHOOSE j \in 1..Len(bs) :
        /\ isOverlappingBall(bs, i, j)
        /\ \A k \in 1..(j - 1) : ~isOverlappingBall(bs, i, k)

\* C6: within one turn firstHitBallType is written only while undetermined,
\* at the first detected overlap, with the struck ball's type if the moving
\* ball has ballNumber 0 and the moving ball's own type otherwise; once set
\* it does not change for the rest of the turn.
C6_FirstHitSetOnce ==
    [][turnsLeft' = turnsLeft =>
        LET moved == [gameBalls EXCEPT ![ballIdx] = addPosition(@, stepSizeX, stepSizeY)]
        IN  /\ turn.firstHitBallType # "undetermined" =>
                  turn'.firstHitBallType = turn.firstHitBallType
            /\ (turn.firstHitBallType = "undetermined"
                  /\ turn'.firstHitBallType # "undetermined") =>
                  /\ pc = "while"
                  /\ \E j \in 1..NumBalls : isOverlappingBall(moved, ballIdx, j)
                  /\ turn'.firstHitBallType =
                        IF gameBalls[ballIdx].ballNumber = 0
                        THEN gameBalls[FirstOverlapped(moved, ballIdx)].ballType
                        ELSE gameBalls[ballIdx].ballType
            /\ (turn.firstHitBallType = "undetermined" /\ pc = "while" /\ hasCollided') =>
                  turn'.firstHitBallType # "undetermined"]_vars

\* a collision happens in a turn whose first hit was recorded earlier with
\* another type than this collision would record
C6_Witness ==
    /\ pc = "while"
    /\ hasCollided
    /\ turn.firstHitBallType # "undetermined"
    /\ gameBalls[ballIdx].ballNumber # 0
    /\ turn.firstHitBallType # gameBalls[ballIdx].ballType

\* C7: a pocketed ball is out of play for good: in every later tick it stays
\* invisible, stepPhysics changes neither its position nor its velocity (it
\* is no collision partner), and it is not appended to pocketedBalls again.
C7_PocketedBallOutOfPlay ==
    [][\A k \in pocketedBefore :
          (pc # "idle") =>
              /\ gameBalls'[k] = gameBalls[k]
              /\ Occurrences(turn'.pocketedBalls, k) <= Occurrences(turn.pocketedBalls, k)]_vars

TypesComplementary ==
    \/ gamePlayers = <<"undetermined", "undetermined">>
    \/ gamePlayers = <<"solid", "striped">>
    \/ gamePlayers = <<"striped", "solid">>

\* C8: pocketing a solid or striped ball while the acting player is
\* undetermined gives the acting player that type and the opponent the
\* other one; any other pocketing, and every other step, changes no type.
\* So the two types are both undetermined or one solid and one striped, and
\* an assigned type never changes.
C8_TargetTypes ==
    /\ []TypesComplementary
    /\ [][LET pocketedNow == {k \in 1..NumBalls :
                                 isVisible(gameBalls[k]) /\ ~isVisible(gameBalls'[k])}
              acting == turn.turnPlayerIndex
              other  == (acting % 2) + 1
          IN  /\ \A k \in pocketedNow :
                    IF gamePlayers[acting] = "undetermined"
                          /\ gameBalls[k].ballType \in {"solid", "striped"}
                    THEN /\ gamePlayers'[acting] = gameBalls[k].ballType
                         /\ gamePlayers'[other] = Complement(gameBalls[k].ballType)
                    ELSE gamePlayers' = gamePlayers
              /\ pocketedNow = {} => gamePlayers' = gamePlayers
              /\ \A p \in 1..2 : gamePlayers[p] # "undetermined" =>
                                     gamePlayers'[p] = gamePlayers[p]]_vars

\* the second player pocketed a striped ball while undetermined
C8_Witness ==
    /\ turn.turnPlayerIndex = 2
    /\ Len(turn.pocketedBalls) > 0
    /\ gameBalls[turn.pocketedBalls[1]].ballType = "striped"
    /\ gamePlayers = <<"solid", "striped">>

\* C9: every ball that is visible when its turn in the pass comes, moving or
\* not, gets the pocket check and the boundary resolution.
C9_EveryVisibleBallChecked ==
    [][(ballIdx \in 1..NumBalls /\ ballIdx' = ballIdx + 1 /\ isVisible(gameBalls[ballIdx])) =>
          LET before == gameBalls[ballIdx]
              after  == gameBalls'[ballIdx]
          IN  /\ isInPocket(before) =>
                    /\ ~isVisible(after)
                    /\ Occurrences(turn'.pocketedBalls, ballIdx) > 0
              /\ BouncedX(before, playSurface) => WithinX(after, playSurface)
              /\ BouncedY(before, playSurface) => WithinY(after, playSurface)]_vars

=============================================================================
